---- MODULE Spec2Model ----
(***************************************************************************)
(* Ingestion and search orchestration of Streamlit_SimilarFaces:           *)
(*   face_embeddings.py   FaceEmbedder.process_image_folder                *)
(*   database_manager.py  DatabaseManager (config file, create_collection, *)
(*                        store_embeddings, search_similar_faces)          *)
(*   config_manager.py    ConfigManager                                    *)
(*   streamlit_app.py     process_folder and the button handlers of main   *)
(* One Streamlit session runs its handlers one after the other.  The face  *)
(* model (dlib), the vector index (Qdrant) and the wall clock are the      *)
(* environment: each call to them picks one of the answers they can give.  *)
(***************************************************************************)
EXTENDS Integers, Sequences, FiniteSets, TLC

\* ---------------------------------------------------------------- bounds
MaxRuns == 2        \* "Process Folder" clicks in one behaviour
MaxSearches == 1    \* "Search" clicks in one behaviour
MaxTicks == 1       \* seconds the wall clock advances in one behaviour
MaxLimit == 2       \* largest value of the "matches to return" slider used
MaxConfigCalls == 2 \* ConfigManager calls and "Save Configuration" clicks

\* ------------------------------------------------------- strings as text
\* A file name is a sequence of one-character strings, so that lower() and
\* endswith() are computed on its characters.
UpperChars == <<"A","B","C","D","E","F","G","H","I","J","K","L","M",
                "N","O","P","Q","R","S","T","U","V","W","X","Y","Z">>
LowerChars == <<"a","b","c","d","e","f","g","h","i","j","k","l","m",
                "n","o","p","q","r","s","t","u","v","w","x","y","z">>

\* str.lower() on one character
LowerChar(c) ==
    IF \E n \in 1..Len(UpperChars) : UpperChars[n] = c
    THEN LowerChars[CHOOSE n \in 1..Len(UpperChars) : UpperChars[n] = c]
    ELSE c

\* str.lower()
Lower(s) == [n \in 1..Len(s) |-> LowerChar(s[n])]

\* str.endswith(suffix)
EndsWith(s, suffix) ==
    /\ Len(s) >= Len(suffix)
    /\ SubSeq(s, Len(s) - Len(suffix) + 1, Len(s)) = suffix

\* the tuple ('.png', '.jpg', '.jpeg')
ImageExtensions == { <<".","p","n","g">>, <<".","j","p","g">>, <<".","j","p","e","g">> }

\* filename.lower().endswith(('.png', '.jpg', '.jpeg'))
IsImageFile(filename) ==
    \E suffix \in ImageExtensions : EndsWith(Lower(filename), suffix)

\* ------------------------------------------------------------ file system
FileA == <<"a",".","j","p","g">>
FileB == <<"B",".","P","N","G">>
FileC == <<"c",".","J","p","e","G">>
FileNotes == <<"n",".","t","x","t">>
FileNoDot == <<"x","j","p","g">>
FileBak == <<"d",".","p","n","g",".","b","a","k">>

\* the paths the operator types into "Enter folder path:"
Paths == {"p", "q", "gone"}

\* relative paths that are also top-level keys of config.json
ReservedPaths == {"deployment", "collections"}

\* what os.path.exists / os.listdir find at a path
PathKind(path) ==
    CASE path = "p" -> "dir"
      [] path = "q" -> "dir"
      [] path = "deployment" -> "dir"
      [] path = "collections" -> "dir"
      [] OTHER -> "missing"

\* os.listdir(path) of a directory, in directory-listing order
ListDir(path) ==
    CASE path = "p" -> <<FileB, FileNotes, FileA>>
      [] path = "q" -> <<FileNoDot, FileC, FileBak>>
      [] path = "deployment" -> <<FileC>>
      [] path = "collections" -> <<FileA>>
      [] OTHER -> << >>

\* ------------------------------------------------------------- embeddings
\* Face descriptors; two components stand for the 128 of the dlib model.
Vec1 == <<1, 1>>
Vec2 == <<2, 1>>

\* What get_face_embeddings can do with one image: raise, or return the
\* list of descriptors of the faces found (empty: no face).
ProviderOutcomes ==
    { [raised |-> TRUE,  faces |-> << >>],
      [raised |-> FALSE, faces |-> << >>],
      [raised |-> FALSE, faces |-> <<Vec1>>],
      [raised |-> FALSE, faces |-> <<Vec1, Vec2>>] }

\* [filename] * n
Repeat(x, n) == [m \in 1..n |-> x]

\* results = {'embeddings': [], 'filenames': [], 'errors': [], 'stats': ...}
EmptyBatch ==
    [embeddings |-> << >>, filenames |-> << >>, errors |-> << >>,
     stats |-> [processed |-> 0, failed |-> 0]]

\* RecordFaces with a slip: the filename is added once, not once per face
RecordFaces_OneName(results, filename, embeddings) ==
    [results EXCEPT
        !.embeddings = results.embeddings \o embeddings,
        !.filenames = Append(results.filenames, filename),
        !.stats.processed = results.stats.processed + 1]

\* process_image_folder, the branch "if embeddings:"
RecordFaces(results, filename, embeddings) ==
    [results EXCEPT
        !.embeddings = results.embeddings \o embeddings,
        !.filenames = results.filenames \o Repeat(filename, Len(embeddings)),
        !.stats.processed = results.stats.processed + 1]

\* RecordFailure with a slip: the error is listed but not counted
RecordFailure_NoCount(results, filename, error) ==
    [results EXCEPT
        !.errors = Append(results.errors, [file |-> filename, error |-> error])]

\* process_image_folder, the "else:" branch and the "except Exception" branch
RecordFailure(results, filename, error) ==
    [results EXCEPT
        !.errors = Append(results.errors, [file |-> filename, error |-> error]),
        !.stats.failed = results.stats.failed + 1]

\* the body of the loop of process_image_folder for one directory entry
ProcessOneFile(results, filename, outcome) ==
    IF ~IsImageFile(filename) THEN results
    ELSE IF outcome.raised THEN RecordFailure(results, filename, "exception")
    ELSE IF outcome.faces # << >> THEN RecordFaces(results, filename, outcome.faces)
    ELSE RecordFailure(results, filename, "No faces detected")


\* ------------------------------------------------------------ wall clock
\* datetime.now().strftime("%Y%m%d%H%M%S") at one-second resolution: the
\* clock value t counts seconds, the name is the digits <minutes><seconds>.
Strftime(t) == (t \div 60) * 100 + (t % 60)

StartTime == 59

\* no collection name / Python's None
NoName == 0 - 1

\* ----------------------------------------------------------- vector index
\* The index service holds a list of collections, each a name and its points;
\* a point is [id, vector, payload] with payload {"image": filename}.

HasCollection(idx, name) == \E n \in 1..Len(idx) : idx[n].name = name

CollectionCount(idx, name) == Cardinality({n \in 1..Len(idx) : idx[n].name = name})

CollectionPoints(idx, name) ==
    IF HasCollection(idx, name)
    THEN idx[CHOOSE n \in 1..Len(idx) : idx[n].name = name].points
    ELSE << >>

\* client.create_collection(collection_name, vectors_config) as the service
\* answers it: "created", "exists" (UnexpectedResponse whose text says the
\* collection already exists) or "error" (any other failure).
CreateResponse(idx, name, fault) ==
    IF fault THEN "error"
    ELSE IF HasCollection(idx, name) THEN "exists"
    ELSE "created"

IndexAfterCreate(idx, name, response) ==
    IF response = "created" THEN Append(idx, [name |-> name, points |-> << >>])
    ELSE idx

\* CreateCollectionStatus with a slip: "already exists" is re-raised too
CreateCollectionStatus_RaiseOnExists(response) ==
    CASE response = "created" -> "Success"
      [] OTHER -> "raise"

\* CreateCollectionStatus with a slip: a service failure is swallowed
CreateCollectionStatus_SwallowError(response) ==
    CASE response = "exists" -> "Collection already exists"
      [] OTHER -> "Success"

\* CreateCollectionStatus with a slip: an existing collection counts as created
CreateCollectionStatus_ExistsIsSuccess(response) ==
    CASE response = "created" -> "Success"
      [] response = "exists" -> "Success"
      [] OTHER -> "raise"

\* create_collection: "Success", "Collection already exists", or the
\* exception is re-raised ("raise")
CreateCollectionStatus(response) ==
    CASE response = "created" -> "Success"
      [] response = "exists" -> "Collection already exists"
      [] OTHER -> "raise"

\* str(uuid.uuid4()): an id no stored point has.  Points are never deleted,
\* so one more than the number of stored points is unused.
uuid4(idx) ==
    LET total[n \in 0..Len(idx)] ==
            IF n = 0 THEN 0 ELSE total[n - 1] + Len(idx[n].points)
    IN  total[Len(idx)] + 1

\* PointStruct(id=point_id, vector=embedding.tolist(), payload={"image": filename})
PointStruct(id, embedding, filename) ==
    [id |-> id, vector |-> embedding, payload |-> [image |-> filename]]

\* the service's upsert into one collection: replace the point with the same
\* id, else add it
UpsertPoint(points, point) ==
    IF \E n \in 1..Len(points) : points[n].id = point.id
    THEN [n \in 1..Len(points) |->
            IF points[n].id = point.id THEN point ELSE points[n]]
    ELSE Append(points, point)

\* client.upsert(collection_name, wait=True, points=[point]) when it succeeds
IndexAfterUpsert(idx, name, point) ==
    [n \in 1..Len(idx) |->
        IF idx[n].name = name
        THEN [idx[n] EXCEPT !.points = UpsertPoint(idx[n].points, point)]
        ELSE idx[n]]

\* Distance.DOT
Dot(u, v) == LET m == IF Len(u) < Len(v) THEN Len(u) ELSE Len(v)
                 sum[n \in 0..m] == IF n = 0 THEN 0 ELSE sum[n - 1] + u[n] * v[n]
             IN  sum[m]

Min(a, b) == IF a < b THEN a ELSE b

\* client.search(collection_name, query_vector, limit): the rankings the
\* service may return, best score first, points of equal score in any order
SearchRankings(points, query_vector, limit) ==
    LET n == Len(points)
        m == Min(limit, n)
        score(j) == Dot(query_vector, points[j].vector)
    IN  { s \in [1..m -> 1..n] :
            /\ \A a, b \in 1..m : a < b => s[a] # s[b] /\ score(s[a]) >= score(s[b])
            /\ \A j \in 1..n : (\A a \in 1..m : s[a] # j) =>
                                 \A a \in 1..m : score(j) <= score(s[a]) }

\* [result.payload for result in results]
Payloads(points, ranking) == [a \in 1..Len(ranking) |-> points[ranking[a]].payload]

\* ----------------------------------------------------- configuration file
\* config.json is absent, unparsable ("corrupt") or holds one JSON object.
\* The object is a function from its keys to values; a value is a deployment
\* block, the "collections" dict or a collection name.
EmptyMapping == [path \in {} |-> NoName]

DeploymentValue(type) ==
    [tag |-> "deployment", type |-> type, mapping |-> EmptyMapping, name |-> NoName]

CollectionsValue(mapping) ==
    [tag |-> "collections", type |-> "", mapping |-> mapping, name |-> NoName]

NameValue(name) ==
    [tag |-> "name", type |-> "", mapping |-> EmptyMapping, name |-> name]

EmptyDoc == [key \in {} |-> NameValue(NoName)]

\* the default of ConfigManager._load_config
DefaultConfig ==
    [key \in {"deployment", "collections"} |->
        IF key = "deployment" THEN DeploymentValue("") ELSE CollectionsValue(EmptyMapping)]

FileAbsent == [state |-> "absent", doc |-> EmptyDoc]
FileCorrupt == [state |-> "corrupt", doc |-> EmptyDoc]
FileWith(doc) == [state |-> "valid", doc |-> doc]

\* DatabaseManager.load_config: the parsed object, {} when the file is absent
\* and {} when reading or parsing fails
load_config(file) == IF file.state = "valid" THEN file.doc ELSE EmptyDoc

\* DatabaseManager.save_config: the file now holds json.dump(config)
save_config(config) == FileWith(config)

\* config[key] = value on a dict
DictSet(config, key, value) ==
    [k \in DOMAIN config \cup {key} |-> IF k = key THEN value ELSE config[k]]

\* variant: the update starts from an empty document instead of the loaded one
UpdateConfig_Fresh(file, path, name) ==
    save_config(DictSet(EmptyDoc, path, NameValue(name)))

\* process_folder, "Update config": load, config[folder_path] = name, save
UpdateConfig(file, path, name) ==
    save_config(DictSet(load_config(file), path, NameValue(name)))

\* ConfigManager._load_config: [raised, config]
ConfigManagerLoad(file) ==
    CASE file.state = "valid" -> [raised |-> FALSE, config |-> file.doc]
      [] file.state = "absent" -> [raised |-> FALSE, config |-> DefaultConfig]
      [] OTHER -> [raised |-> TRUE, config |-> EmptyDoc]

\* ConfigManager.get_collection_name: self.config["collections"].get(folder_path)
\* as [raised, name]; name is NoName for None
get_collection_name(config, path) ==
    IF "collections" \notin DOMAIN config THEN [raised |-> TRUE, name |-> NoName]
    ELSE IF config["collections"].tag # "collections" THEN [raised |-> TRUE, name |-> NoName]
    ELSE IF path \in DOMAIN config["collections"].mapping
         THEN [raised |-> FALSE, name |-> config["collections"].mapping[path]]
         ELSE [raised |-> FALSE, name |-> NoName]

\* main: [value for key, value in config.items()
\*        if key not in ["deployment", "collections"]]
ListedCollections(config) ==
    { config[key].name : key \in DOMAIN config \ {"deployment", "collections"} }


\* ------------------------------------------------- store_embeddings pieces
\* results = {'success_count': 0, 'error_count': 0, 'errors': []}
EmptyStorage == [success_count |-> 0, error_count |-> 0, errors |-> << >>]

\* store_embeddings after an upsert that returned
StoreSuccess(results) ==
    [results EXCEPT !.success_count = results.success_count + 1]

\* StoreFailure with a slip: the failure is counted but not listed
StoreFailure_NoEntry(results, filename) ==
    [results EXCEPT !.error_count = results.error_count + 1]

\* store_embeddings, "except Exception" around one upsert
StoreFailure(results, filename) ==
    [results EXCEPT
        !.error_count = results.error_count + 1,
        !.errors = Append(results.errors, [file |-> filename, error |-> "exception"])]

\* len(list(zip(embeddings, filenames)))
NumPairs(embeddings, filenames) == Min(Len(embeddings), Len(filenames))

\* a store_embeddings call in progress: its arguments, the loop position k
\* and its results dict
StoreCall(name, embeddings, filenames) ==
    [collection_name |-> name, embeddings |-> embeddings, filenames |-> filenames,
     k |-> 1, results |-> EmptyStorage]

NoStore == StoreCall(NoName, << >>, << >>)

\* ---------------------------------------------------- process_folder pieces
NoResult ==
    [status |-> "none", message |-> "", collection_name |-> NoName,
     processed |-> 0, failed |-> 0, stored |-> 0, store_errors |-> 0]

\* return {"status": "error", "message": message}
ErrorResult(message) == [NoResult EXCEPT !.status = "error", !.message = message]

\* return {"status": "success", "collection_name": ..., "processed": ..., ...}
SuccessResult(name, batch, storage) ==
    [status |-> "success", message |-> "", collection_name |-> name,
     processed |-> batch.stats.processed, failed |-> batch.stats.failed,
     stored |-> storage.success_count, store_errors |-> storage.error_count]

\* AfterCreate with a slip: the status is only checked for an exception
AfterCreate_IgnoreStatus(creation_status, embeddings) ==
    CASE creation_status = "raise" -> "raise"
      [] creation_status # "raise" /\ embeddings # << >> -> "store"
      [] OTHER -> "empty"

\* AfterCreate with a slip: the embeddings are stored even when there are none
AfterCreate_StoreEmpty(creation_status, embeddings) ==
    CASE creation_status = "raise" -> "raise"
      [] creation_status # "raise" /\ creation_status # "Success" -> "status"
      [] OTHER -> "store"

\* process_folder after create_collection: where the run goes next
\*   "raise"   create_collection raised, caught by "except Exception"
\*   "status"  creation_status != "Success"
\*   "store"   embedding_results['embeddings'] is non-empty
\*   "empty"   "No embeddings generated"
AfterCreate(creation_status, embeddings) ==
    CASE creation_status = "raise" -> "raise"
      [] creation_status # "raise" /\ creation_status # "Success" -> "status"
      [] creation_status = "Success" /\ embeddings # << >> -> "store"
      [] OTHER -> "empty"

\* ------------------------------------------------------------ search pieces
FileQ == <<"q",".","p","n","g">>

\* names of the files the operator uploads as query image
QueryNames == {FileQ}

\* variant: an image without a face is answered like a search without matches
AfterEmbedding_NoFaceIsNoMatch(outcome) ==
    IF outcome.raised THEN "exception"
    ELSE IF outcome.faces = << >> THEN "nomatch"
    ELSE "running"

\* main, Search handler after embedder.get_face_embeddings(image): an
\* exception ends the script run, "if not embeddings" warns "No faces
\* detected in the uploaded image", anything else goes on to store and query
AfterEmbedding(outcome) ==
    IF outcome.raised THEN "exception"
    ELSE IF outcome.faces = << >> THEN "noface"
    ELSE "running"

NoSearch ==
    [selected_collection |-> NoName, name |-> << >>, limit |-> 0,
     vector |-> << >>, outcome |-> "none", hits |-> << >>]

\* ------------------------------------------------------------------- state
VARIABLES
    now,                \* wall clock, in seconds
    ticks,              \* seconds elapsed since the start
    index,              \* the index service's collections
    cfgFile,            \* config.json
    current_collection, \* st.session_state.current_collection
    pc,                 \* "idle", "embed", "store" (ingest), "qstore" (search)
    runs,               \* process_folder calls so far
    searches,           \* Search clicks so far
    folder_path,        \* argument of the process_folder call
    listing,            \* os.listdir(folder_path) of that call
    pos,                \* position of process_image_folder in listing
    embedding_results,  \* results dict of process_image_folder
    collection_name,    \* collection_name of the process_folder call
    creation_status,    \* creation_status of the process_folder call
    store,              \* the store_embeddings call in progress
    result,             \* what the last process_folder call returned
    search,             \* the last Search click and its outcome
    attempted,          \* history: get_face_embeddings calls of this batch
    upsertLog,          \* history: client.upsert calls of this store_embeddings
    runEvents,          \* history: upserts and mapping writes of this run
    createLog,          \* history: the last two create_collection calls
    before,             \* history: config file and index when the handler began
    config_manager,     \* a ConfigManager object: whether built, and its self.config
    everBound,          \* history: every (folder, collection) binding written
    configCalls         \* ConfigManager calls and "Save Configuration" clicks so far

vars == <<now, ticks, index, cfgFile, current_collection, pc, runs,
          searches, folder_path, listing, pos, embedding_results,
          collection_name, creation_status, store, result, search,
          attempted, upsertLog, runEvents, createLog, before,
          config_manager, everBound, configCalls>>

\* the configuration files a run can find: none, an unparsable one, and the
\* one the first-time setup writes
InitialFiles ==
    { FileAbsent, FileCorrupt,
      FileWith(DictSet(DefaultConfig, "deployment", DeploymentValue("docker"))) }

\* no ConfigManager has been constructed
NoManager == [built |-> FALSE, config |-> EmptyDoc]

\* the last two entries of a history
LastTwo(log) == IF Len(log) > 2 THEN SubSeq(log, Len(log) - 1, Len(log)) ELSE log

Snapshot(file, idx, points) == [cfgFile |-> file, index |-> idx, points |-> points]

Init ==
    /\ now = StartTime
    /\ ticks = 0
    /\ index = << >>
    /\ cfgFile \in InitialFiles
    /\ current_collection = NoName
    /\ pc = "idle"
    /\ runs = 0
    /\ searches = 0
    /\ folder_path = ""
    /\ listing = << >>
    /\ pos = 1
    /\ embedding_results = EmptyBatch
    /\ collection_name = NoName
    /\ creation_status = ""
    /\ store = NoStore
    /\ result = NoResult
    /\ search = NoSearch
    /\ attempted = << >>
    /\ upsertLog = << >>
    /\ runEvents = << >>
    /\ createLog = << >>
    /\ before = Snapshot(cfgFile, << >>, << >>)
    /\ config_manager = NoManager
    /\ everBound = {}
    /\ configCalls = 0

\* The clock advances by one second.  process_folder reads it once, so a
\* second that passes during a handler is one that passes before or after it.
Tick ==
    /\ UNCHANGED <<config_manager, everBound, configCalls>>
    /\ pc = "idle"
    /\ ticks < MaxTicks
    /\ now' = now + 1
    /\ ticks' = ticks + 1
    /\ UNCHANGED <<index, cfgFile, current_collection, pc, runs,
                   searches, folder_path, listing, pos, embedding_results,
                   collection_name, creation_status, store, result, search,
                   attempted, upsertLog, runEvents, createLog, before>>

\* process_folder(path, ...) up to the start of the loop of
\* process_image_folder: os.listdir raises unless path is a directory
ProcessFolder(path) ==
    /\ UNCHANGED <<config_manager, everBound, configCalls>>
    /\ pc = "idle"
    /\ runs < MaxRuns
    /\ runs' = runs + 1
    /\ folder_path' = path
    /\ attempted' = << >>
    /\ upsertLog' = << >>
    /\ runEvents' = << >>
    /\ before' = Snapshot(cfgFile, index, << >>)
    /\ embedding_results' = EmptyBatch
    /\ collection_name' = NoName
    /\ creation_status' = ""
    /\ store' = NoStore
    /\ pos' = 1
    /\ search' = NoSearch
    /\ IF PathKind(path) = "dir"
       THEN /\ listing' = ListDir(path)
            /\ result' = NoResult
            /\ pc' = "embed"
       ELSE /\ listing' = << >>
            /\ result' = ErrorResult("listdir failed")
            /\ pc' = "idle"
    /\ UNCHANGED <<now, ticks, index, cfgFile, current_collection,
                   searches, createLog>>

\* one iteration of "for filename in os.listdir(folder_path)"
EmbedStep ==
    /\ UNCHANGED <<config_manager, everBound, configCalls>>
    /\ pc = "embed"
    /\ pos <= Len(listing)
    /\ \E outcome \in ProviderOutcomes :
         /\ IsImageFile(listing[pos]) \/ outcome = [raised |-> FALSE, faces |-> << >>]
         /\ embedding_results' = ProcessOneFile(embedding_results, listing[pos], outcome)
         /\ attempted' = IF IsImageFile(listing[pos])
                         THEN Append(attempted, [file |-> listing[pos], outcome |-> outcome])
                         ELSE attempted
    /\ pos' = pos + 1
    /\ UNCHANGED <<now, ticks, index, cfgFile, current_collection, pc,
                   runs, searches, folder_path, listing, collection_name,
                   creation_status, store, result, search, upsertLog,
                   runEvents, createLog, before>>

\* process_image_folder returns; process_folder names the collection after
\* the clock, creates it and branches on creation_status and the embeddings
CreateStep ==
    /\ UNCHANGED <<config_manager, everBound, configCalls>>
    /\ pc = "embed"
    /\ pos > Len(listing)
    /\ \E fault \in BOOLEAN :
         LET name == Strftime(now)
             response == CreateResponse(index, name, fault)
             status == CreateCollectionStatus(response)
             branch == AfterCreate(status, embedding_results.embeddings)
         IN  /\ collection_name' = name
             /\ creation_status' = status
             /\ index' = IndexAfterCreate(index, name, response)
             /\ createLog' = LastTwo(Append(createLog,
                    [name |-> name, existed |-> HasCollection(index, name),
                     response |-> response, status |-> status]))
             /\ CASE branch = "store" ->
                       /\ store' = StoreCall(name, embedding_results.embeddings,
                                             embedding_results.filenames)
                       /\ before' = [before EXCEPT !.points =
                              CollectionPoints(IndexAfterCreate(index, name, response), name)]
                       /\ result' = result
                       /\ pc' = "store"
                  [] branch = "raise" ->
                       /\ result' = ErrorResult("exception")
                       /\ pc' = "idle"
                       /\ UNCHANGED <<store, before>>
                  [] branch = "status" ->
                       /\ result' = ErrorResult(status)
                       /\ pc' = "idle"
                       /\ UNCHANGED <<store, before>>
                  [] OTHER ->
                       /\ result' = ErrorResult("No embeddings generated")
                       /\ pc' = "idle"
                       /\ UNCHANGED <<store, before>>
    /\ UNCHANGED <<now, ticks, cfgFile, current_collection, runs,
                   searches, folder_path, listing, pos, embedding_results,
                   search, attempted, upsertLog, runEvents>>

\* one iteration of "for embedding, filename in zip(embeddings, filenames)":
\* the upsert fails when the service fails or has no such collection
StoreStep ==
    /\ UNCHANGED <<config_manager, everBound, configCalls>>
    /\ pc \in {"store", "qstore"}
    /\ store.k <= NumPairs(store.embeddings, store.filenames)
    /\ \E fault \in BOOLEAN :
         LET embedding == store.embeddings[store.k]
             filename == store.filenames[store.k]
             ok == ~fault /\ HasCollection(index, store.collection_name)
             point == PointStruct(uuid4(index), embedding, filename)
         IN  /\ index' = IF ok THEN IndexAfterUpsert(index, store.collection_name, point)
                         ELSE index
             /\ store' = [store EXCEPT
                    !.k = store.k + 1,
                    !.results = IF ok THEN StoreSuccess(store.results)
                                ELSE StoreFailure(store.results, filename)]
             /\ upsertLog' = Append(upsertLog,
                    [collection_name |-> store.collection_name, point |-> point, ok |-> ok])
    /\ runEvents' = IF pc = "store" THEN Append(runEvents, "upsert") ELSE runEvents
    /\ UNCHANGED <<now, ticks, cfgFile, current_collection, pc, runs, searches,
                   folder_path, listing, pos, embedding_results,
                   collection_name, creation_status, result, search,
                   attempted, createLog, before>>

\* store_embeddings returns to process_folder: "Update config", session
\* state, and the success report
FinishIngest ==
    /\ UNCHANGED <<config_manager, configCalls>>
    /\ everBound' = everBound \cup {<<folder_path, collection_name>>}
    /\ pc = "store"
    /\ store.k > NumPairs(store.embeddings, store.filenames)
    /\ cfgFile' = UpdateConfig(cfgFile, folder_path, collection_name)
    /\ runEvents' = Append(runEvents, "mapping")
    /\ current_collection' = collection_name
    /\ result' = SuccessResult(collection_name, embedding_results, store.results)
    /\ pc' = "idle"
    /\ UNCHANGED <<now, ticks, index, runs, searches, folder_path,
                   listing, pos, embedding_results, collection_name,
                   creation_status, store, search, attempted, upsertLog,
                   createLog, before>>

\* main, "Search" clicked: the collection is one of those listed from
\* config.json; the query image is embedded, and its first face is stored
\* into the selected collection before the query
Search(selected, name, limit, outcome) ==
    /\ UNCHANGED <<config_manager, everBound, configCalls>>
    /\ pc = "idle"
    /\ searches < MaxSearches
    /\ selected \in ListedCollections(load_config(cfgFile))
    /\ searches' = searches + 1
    /\ current_collection' = selected
    /\ upsertLog' = << >>
    /\ before' = Snapshot(cfgFile, index, CollectionPoints(index, selected))
    /\ IF AfterEmbedding(outcome) = "running"
       THEN /\ search' = [NoSearch EXCEPT !.selected_collection = selected,
                              !.name = name, !.limit = limit,
                              !.vector = outcome.faces[1], !.outcome = "running"]
            /\ store' = StoreCall(selected, <<outcome.faces[1]>>, <<name>>)
            /\ pc' = "qstore"
       ELSE /\ search' = [NoSearch EXCEPT !.selected_collection = selected,
                              !.name = name, !.limit = limit,
                              !.outcome = AfterEmbedding(outcome)]
            /\ pc' = pc
    /\ folder_path' = ""
    /\ listing' = << >>
    /\ pos' = 1
    /\ embedding_results' = EmptyBatch
    /\ collection_name' = NoName
    /\ creation_status' = ""
    /\ result' = NoResult
    /\ attempted' = << >>
    /\ runEvents' = << >>
    /\ IF AfterEmbedding(outcome) # "running" THEN store' = NoStore ELSE TRUE
    /\ UNCHANGED <<now, ticks, index, cfgFile, runs, createLog>>

\* store_embeddings returns to the Search handler: search_similar_faces
\* raises when the service fails or has no such collection, else returns the
\* payloads of the best matches
SearchQuery ==
    /\ UNCHANGED <<config_manager, everBound, configCalls>>
    /\ pc = "qstore"
    /\ store.k > NumPairs(store.embeddings, store.filenames)
    /\ \E fault \in BOOLEAN :
         IF fault \/ ~HasCollection(index, search.selected_collection)
         THEN search' = [search EXCEPT !.outcome = "exception"]
         ELSE \E ranking \in SearchRankings(
                    CollectionPoints(index, search.selected_collection),
                    search.vector, search.limit) :
                LET hits == Payloads(CollectionPoints(index, search.selected_collection),
                                     ranking)
                IN  search' = [search EXCEPT
                        !.hits = hits,
                        !.outcome = IF hits # << >> THEN "hits" ELSE "nomatch"]
    /\ pc' = "idle"
    /\ UNCHANGED <<now, ticks, index, cfgFile, current_collection, runs,
                   searches, folder_path, listing, pos, embedding_results,
                   collection_name, creation_status, store, result, attempted,
                   upsertLog, runEvents, createLog, before>>

Next ==
    \/ Tick
    \/ \E path \in Paths : ProcessFolder(path)
    \/ EmbedStep
    \/ CreateStep
    \/ StoreStep
    \/ FinishIngest
    \/ \E selected \in {Strftime(StartTime + d) : d \in 0..MaxTicks},
          name \in QueryNames, limit \in 1..MaxLimit, outcome \in ProviderOutcomes :
            Search(selected, name, limit, outcome)
    \/ SearchQuery

Spec == Init /\ [][Next]_vars

\* ------------------------------------------------- ConfigManager and setup
\* the variables of the ingestion and search handlers
handlerVars == <<now, ticks, index, current_collection, pc, runs, searches,
                 folder_path, listing, pos, embedding_results, collection_name,
                 creation_status, store, result, search, attempted, upsertLog,
                 runEvents, createLog, before, everBound>>

\* the deployment types of the setup form
DeploymentTypes == {"docker", "cloud"}

\* self.config["collections"][folder_path] = collection_name, as
\* [raised, config]: KeyError without the key, TypeError when the value is
\* a string
SetMapping(config, path, name) ==
    IF "collections" \notin DOMAIN config THEN [raised |-> TRUE, config |-> config]
    ELSE IF config["collections"].tag # "collections" THEN [raised |-> TRUE, config |-> config]
    ELSE [raised |-> FALSE,
          config |-> DictSet(config, "collections",
                        CollectionsValue(DictSet(config["collections"].mapping, path, name)))]

\* ConfigManager(CONFIG_FILE): the object holds what _load_config returned;
\* an unparsable file makes the constructor raise
NewConfigManager ==
    /\ pc = "idle"
    /\ configCalls < MaxConfigCalls
    /\ configCalls' = configCalls + 1
    /\ LET loaded == ConfigManagerLoad(cfgFile)
       IN  config_manager' = IF loaded.raised THEN config_manager
                             ELSE [built |-> TRUE, config |-> loaded.config]
    /\ UNCHANGED cfgFile
    /\ UNCHANGED handlerVars

\* ConfigManager.save_config: json.dump(self.config) over the file
ManagerSave ==
    /\ pc = "idle"
    /\ config_manager.built
    /\ configCalls < MaxConfigCalls
    /\ configCalls' = configCalls + 1
    /\ cfgFile' = FileWith(config_manager.config)
    /\ UNCHANGED config_manager
    /\ UNCHANGED handlerVars

\* ConfigManager.update_collection_mapping(folder_path, collection_name),
\* called with the folder and the collection of the run that just ended
ManagerUpdateMapping(path, name) ==
    /\ pc = "idle"
    /\ collection_name # NoName
    /\ path = folder_path
    /\ name = collection_name
    /\ config_manager.built
    /\ configCalls < MaxConfigCalls
    /\ configCalls' = configCalls + 1
    /\ LET set == SetMapping(config_manager.config, path, name)
       IN  IF set.raised
           THEN UNCHANGED <<config_manager, cfgFile>>
           ELSE /\ config_manager' = [config_manager EXCEPT !.config = set.config]
                /\ cfgFile' = FileWith(set.config)
    /\ UNCHANGED handlerVars

\* main, "Save Configuration" clicked: a new ConfigManager loads the file,
\* config["deployment"] is replaced, the whole config is saved
SaveConfiguration(type) ==
    /\ pc = "idle"
    /\ configCalls < MaxConfigCalls
    /\ configCalls' = configCalls + 1
    /\ LET loaded == ConfigManagerLoad(cfgFile)
       IN  cfgFile' = IF loaded.raised THEN cfgFile
                      ELSE FileWith(DictSet(loaded.config, "deployment",
                                            DeploymentValue(type)))
    /\ UNCHANGED config_manager
    /\ UNCHANGED handlerVars

\* the folders ingested next to the ConfigManager calls
ConfigPaths == {"q"} \cup ReservedPaths

\* ingestion, ConfigManager calls and deployment setup
NextConfig ==
    \/ Tick
    \/ \E path \in ConfigPaths : ProcessFolder(path)
    \/ EmbedStep
    \/ CreateStep
    \/ StoreStep
    \/ FinishIngest
    \/ NewConfigManager
    \/ ManagerSave
    \/ ManagerUpdateMapping(folder_path, collection_name)
    \/ \E type \in DeploymentTypes : SaveConfiguration(type)

SpecConfig == Init /\ [][NextConfig]_vars

\* the Search handler over collections ingested from folder q
NextSearch ==
    \/ Tick
    \/ ProcessFolder("q")
    \/ EmbedStep
    \/ CreateStep
    \/ StoreStep
    \/ FinishIngest
    \/ \E selected \in {Strftime(StartTime + d) : d \in 0..MaxTicks},
          name \in QueryNames, limit \in 1..MaxLimit, outcome \in ProviderOutcomes :
            Search(selected, name, limit, outcome)
    \/ SearchQuery

SpecSearch == Init /\ [][NextSearch]_vars

\* the ingestion handlers alone
NextIngest ==
    \/ Tick
    \/ \E path \in Paths : ProcessFolder(path)
    \/ EmbedStep
    \/ CreateStep
    \/ StoreStep
    \/ FinishIngest

SpecIngest == Init /\ [][NextIngest]_vars


\* ------------------------------------------------------------- properties
\* process_image_folder has run through the whole listing and returns
BatchReturned == pc = "embed" /\ pos > Len(listing)

\* store_embeddings has gone through all pairs and returns
StoreReturned ==
    pc \in {"store", "qstore"} /\ store.k > NumPairs(store.embeddings, store.filenames)

\* process_folder has returned
RunEnded == pc = "idle" /\ result.status # "none"

\* the directory entries with a recognised extension, written out
ExpectedImages == {FileA, FileB, FileC}
IsExpectedImage(filename) == filename \in ExpectedImages

YieldedFaces(attempt) == ~attempt.outcome.raised /\ attempt.outcome.faces # << >>

CountOf(seq, Test(_)) == Cardinality({n \in 1..Len(seq) : Test(seq[n])})

\* C1: when process_image_folder returns, every directory entry with a
\* recognised extension has been attempted exactly once (in listing order),
\* whatever the earlier files did; processed counts the files that yielded
\* an embedding, failed those that yielded none, their sum is the number of
\* recognised files, and there is one error entry per failed file.
C1_BatchAccounting ==
    BatchReturned =>
        LET stats == embedding_results.stats
            images == SelectSeq(listing, IsExpectedImage)
        IN  /\ [n \in 1..Len(attempted) |-> attempted[n].file] = images
            /\ stats.processed = CountOf(attempted, YieldedFaces)
            /\ stats.failed = Len(attempted) - CountOf(attempted, YieldedFaces)
            /\ stats.processed + stats.failed = Len(images)
            /\ Len(embedding_results.errors) = stats.failed

\* C1 witness: the first image raised, the batch went on and a later image
\* yielded a face
C1_Witness ==
    /\ BatchReturned
    /\ Len(attempted) = 2
    /\ attempted[1].outcome.raised
    /\ YieldedFaces(attempted[2])
    /\ embedding_results.stats = [processed |-> 1, failed |-> 1]

\* the (filename, embedding) pairs the attempts made so far yielded, in order
RECURSIVE YieldedPairs(_)
YieldedPairs(attempts) ==
    IF attempts = << >> THEN << >>
    ELSE LET last == attempts[Len(attempts)]
         IN  YieldedPairs(SubSeq(attempts, 1, Len(attempts) - 1)) \o
             [n \in 1..Len(last.outcome.faces) |->
                 [file |-> last.file, embedding |-> last.outcome.faces[n]]]

\* C2: after each file and on return the embeddings and filenames lists have
\* the same length and are index-aligned: entry i of both comes from the same
\* file, a file with k faces gives k consecutive entries, in listing order.
C2_Aligned ==
    LET pairs == YieldedPairs(attempted)
    IN  /\ Len(embedding_results.embeddings) = Len(embedding_results.filenames)
        /\ Len(embedding_results.embeddings) = Len(pairs)
        /\ \A n \in 1..Len(pairs) :
              /\ embedding_results.filenames[n] = pairs[n].file
              /\ embedding_results.embeddings[n] = pairs[n].embedding

\* C2 witness: a file with two faces followed by a file with one
C2_Witness ==
    /\ BatchReturned
    /\ embedding_results.filenames = <<FileB, FileB, FileA>>
    /\ embedding_results.embeddings = <<Vec1, Vec2, Vec1>>

\* the points of the upserts of this store_embeddings call that succeeded
StoredPoints(log) ==
    LET okAt == SelectSeq([n \in 1..Len(log) |-> n], LAMBDA n : log[n].ok)
    IN  [m \in 1..Len(okAt) |-> log[okAt[m]].point]

\* C3: when store_embeddings returns it has issued one upsert per
\* (embedding, filename) pair, in input order, whatever the earlier upserts
\* did; success_count + error_count is the number of pairs, error_count is
\* len(errors), success_count is the number of upserts that succeeded, and
\* the collection has gained exactly the points of the successful upserts.
C3_StoreAccounting ==
    StoreReturned =>
        LET n == NumPairs(store.embeddings, store.filenames)
            r == store.results
        IN  /\ Len(upsertLog) = n
            /\ \A m \in 1..n :
                  /\ upsertLog[m].collection_name = store.collection_name
                  /\ upsertLog[m].point.vector = store.embeddings[m]
                  /\ upsertLog[m].point.payload.image = store.filenames[m]
            /\ r.success_count + r.error_count = n
            /\ r.error_count = Len(r.errors)
            /\ r.success_count = Len(StoredPoints(upsertLog))
            /\ CollectionPoints(index, store.collection_name) =
                   before.points \o StoredPoints(upsertLog)

\* C3 witness: the first upsert failed, a later one succeeded
C3_Witness ==
    /\ StoreReturned
    /\ Len(upsertLog) >= 2
    /\ ~upsertLog[1].ok
    /\ upsertLog[2].ok
    /\ store.results.success_count >= 1
    /\ store.results.error_count >= 1

MappingWrites == CountOf(runEvents, LAMBDA e : e = "mapping")
UpsertAttempts == CountOf(runEvents, LAMBDA e : e = "upsert")

BoundTo(file, path) ==
    IF file.state = "valid" /\ path \in DOMAIN file.doc /\ file.doc[path].tag = "name"
    THEN file.doc[path].name
    ELSE NoName

\* C5: after a successful ingest that produced collection C, a ConfigManager
\* loaded from config.json answers get_collection_name(folder) with C.
C5_LookupReturnsCollection ==
    (RunEnded /\ result.status = "success") =>
        LET manager == ConfigManagerLoad(cfgFile)
        IN  /\ ~manager.raised
            /\ get_collection_name(manager.config, folder_path) =
                   [raised |-> FALSE, name |-> result.collection_name]

\* the Search handler has finished with an answer from the index service
SearchAnswered == pc = "idle" /\ search.outcome \in {"hits", "nomatch"}

\* the points the collection held when Search was clicked whose vector is
\* the query vector
MatchingIngested ==
    {n \in 1..Len(before.points) : before.points[n].vector = search.vector}

\* C6: a search with limit 1 in a collection filled by a successful ingest,
\* with a query embedding equal to that of an ingested image, returns exactly
\* one hit, and the hit names that ingested image.
C6_SearchFindsIngestedImage ==
    (SearchAnswered /\ searches = 1 /\ search.limit = 1 /\ MatchingIngested # {}) =>
        /\ Len(search.hits) = 1
        /\ \E n \in MatchingIngested : search.hits[1] = before.points[n].payload

\* this run's call of create_collection, when it made one
RunCreateCall == createLog[Len(createLog)]

\* C7: a run on a folder none of whose images yields an embedding ends with
\* an error report and leaves config.json as it was.
C7_NoEmbeddingsNoMapping ==
    (RunEnded /\ PathKind(folder_path) = "dir" /\ embedding_results.embeddings = << >>) =>
        /\ result.status = "error"
        /\ cfgFile = before.cfgFile
        /\ MappingWrites = 0

\* C7 witness: both images of the folder were attempted, none gave a face,
\* the collection was created and the run reported "No embeddings generated"
C7_Witness ==
    /\ RunEnded
    /\ Len(attempted) = 2
    /\ embedding_results.embeddings = << >>
    /\ creation_status = "Success"
    /\ result = ErrorResult("No embeddings generated")

\* C8: when the index service fails the creation for another reason than
\* "already exists", the run ends with an error report, sends no upsert,
\* does not write the mapping and stores none of its embeddings.
C8_CreateFailureStopsRun ==
    (RunEnded /\ creation_status # "" /\ RunCreateCall.response = "error") =>
        /\ result.status = "error"
        /\ runEvents = << >>
        /\ upsertLog = << >>
        /\ index = before.index
        /\ cfgFile = before.cfgFile

\* C8 witness: embeddings were computed, then the creation failed
C8_Witness ==
    /\ RunEnded
    /\ creation_status = "raise"
    /\ RunCreateCall.response = "error"
    /\ Len(embedding_results.embeddings) >= 2
    /\ result = ErrorResult("exception")

\* C9: of two create_collection calls in succession for the same name that
\* the service answers, neither raises, the first reports "Success" when the
\* name was new, the second reports "Collection already exists", and the
\* index holds one collection of that name.
C9_CreateIdempotent ==
    \A n \in 1..(Len(createLog) - 1) :
        LET first == createLog[n]
            second == createLog[n + 1]
        IN  (first.name = second.name /\ first.response # "error"
                                      /\ second.response # "error") =>
                /\ first.status # "raise"
                /\ second.status # "raise"
                /\ ~first.existed => first.status = "Success"
                /\ second.status = "Collection already exists"
                /\ CollectionCount(index, first.name) = 1

\* C9 witness: two runs in the same second, created then already there
C9_Witness ==
    /\ Len(createLog) = 2
    /\ createLog[1].name = createLog[2].name
    /\ createLog[1].status = "Success"
    /\ createLog[2].status = "Collection already exists"

\* C10: a second run on a folder that an earlier run bound, which listed the
\* folder, got embeddings and reached the index service, ends with the folder
\* bound to another collection than before, and the earlier collection is
\* still in the index with its points.
C10_RerunBindsNewCollection ==
    (/\ RunEnded
     /\ BoundTo(before.cfgFile, folder_path) # NoName
     /\ PathKind(folder_path) = "dir"
     /\ embedding_results.embeddings # << >>
     /\ RunCreateCall.response # "error") =>
        LET old == BoundTo(before.cfgFile, folder_path)
        IN  /\ BoundTo(cfgFile, folder_path) # old
            /\ HasCollection(index, old)
            /\ CollectionPoints(index, old) = CollectionPoints(before.index, old)


\* the folder keys of config.json that are bound to a collection
BoundFolders(file) ==
    IF file.state = "valid"
    THEN {key \in DOMAIN file.doc : file.doc[key].tag = "name"}
    ELSE {}

\* C11: in config.json no collection name is bound to two different folders,
\* and a name that was ever bound to one folder is never bound to another,
\* also when runs start within the same clock second.
C11_CollectionNotShared ==
    /\ \A f, g \in BoundFolders(cfgFile) :
          f # g => cfgFile.doc[f].name # cfgFile.doc[g].name
    /\ \A b, c \in everBound : b[1] # c[1] => b[2] # c[2]
    /\ \A f \in BoundFolders(cfgFile) : <<f, cfgFile.doc[f].name>> \in everBound

\* C11 witness: a run on another folder in the second in which the first
\* folder was bound ends without a binding of its own
C11_Witness ==
    /\ RunEnded
    /\ folder_path = "q"
    /\ embedding_results.embeddings # << >>
    /\ BoundTo(cfgFile, "p") = collection_name
    /\ BoundTo(cfgFile, "q") = NoName
    /\ result = ErrorResult("Collection already exists")

\* the step removes folder f's entry from config.json
EntryLost(f) ==
    /\ f \in BoundFolders(cfgFile)
    /\ f \notin BoundFolders(cfgFile')

\* the step is a ConfigManager writing its in-memory configuration to the file
ManagerWrite ==
    /\ ManagerSave \/ ManagerUpdateMapping(folder_path, collection_name)
    /\ cfgFile' = FileWith(config_manager'.config)

\* the step is a "Save Configuration" click whose ConfigManager loaded the file
DeploymentSaved ==
    /\ \E type \in DeploymentTypes : SaveConfiguration(type)
    /\ ~ConfigManagerLoad(cfgFile).raised

C13_NoFaceSendsNothing ==
    /\ search.outcome = "noface" =>
          /\ pc = "idle"
          /\ upsertLog = << >>
          /\ store = NoStore
          /\ search.hits = << >>
          /\ search.vector = << >>
          /\ index = before.index
          /\ CollectionPoints(index, search.selected_collection) = before.points
    /\ search.outcome = "nomatch" =>
          /\ upsertLog # << >>
          /\ upsertLog[1].collection_name = search.selected_collection
          /\ search.vector # << >>

\* a search with a faceless query image has ended in a collection that
\* holds ingested points
C13_Witness ==
    /\ pc = "idle"
    /\ searches = 1
    /\ search.outcome = "noface"
    /\ search.name = FileQ
    /\ before.points # << >>

\* C14: a run whose batch holds no embedding stops with the error "No
\* embeddings generated" and writes nothing: the index service's collections
\* and their records, and config.json, are as they were before the run (here
\* for the runs whose create_collection call answered "Success").
C14_NoEmbeddingsNoWrites ==
    (/\ RunEnded
     /\ PathKind(folder_path) = "dir"
     /\ embedding_results.embeddings = << >>
     /\ creation_status = "Success") =>
        /\ result = ErrorResult("No embeddings generated")
        /\ cfgFile = before.cfgFile
        /\ index = before.index

\* the deployment settings config.json holds, as [present, value]
PersistedDeployment(file) ==
    IF /\ file.state = "valid"
       /\ "deployment" \in DOMAIN file.doc
       /\ file.doc["deployment"].tag = "deployment"
    THEN [present |-> TRUE, value |-> file.doc["deployment"]]
    ELSE [present |-> FALSE, value |-> DeploymentValue("")]

\* the folders bound under the "collections" key of config.json
MappedFolders(file) ==
    IF /\ file.state = "valid"
       /\ "collections" \in DOMAIN file.doc
       /\ file.doc["collections"].tag = "collections"
    THEN DOMAIN file.doc["collections"].mapping
    ELSE {}

\* C15: the config update that ends a successful run changes only the entry
\* of the ingested folder, whatever the folder path string is: the deployment
\* settings in config.json and the entries of every other folder are the
\* same after the update as before it.
C15_UpdateChangesOnlyFolderEntry ==
    [][FinishIngest =>
          /\ PersistedDeployment(cfgFile') = PersistedDeployment(cfgFile)
          /\ \A f \in BoundFolders(cfgFile) \ {folder_path} :
                /\ f \in BoundFolders(cfgFile')
                /\ cfgFile'.doc[f] = cfgFile.doc[f]
          /\ \A f \in MappedFolders(cfgFile) \ {folder_path} :
                /\ f \in MappedFolders(cfgFile')
                /\ cfgFile'.doc["collections"].mapping[f] =
                      cfgFile.doc["collections"].mapping[f]]_vars

==============================================================================
